---- MODULE Spec2Model ----
(***************************************************************************)
(* Model of src/api_server.js: the three request handlers                  *)
(* (/api/analyze-files, /api/generate-study-plan,                          *)
(* /api/generate-test-paper), the DeepSeek client, the JSON extraction     *)
(* applied to the model's answer and the two fallback generators.          *)
(*                                                                         *)
(* TLA+ strings are ASCII, so the Chinese literals of the source are       *)
(* written in English or pinyin:                                           *)
(*   characters of file names  "shu" 数  "xue" 学  "dai" 代  "ji" 几       *)
(*                             "he" 何  "gao" 高                           *)
(*   difficulty                "easy" 简单  "medium" 中等  "hard" 困难     *)
(*   subject                   "math" 数学  "computer basics" 计算机基础   *)
(*   day title                 "basics" 基础知识  "review" 综合复习        *)
(*                             "key content" 重点内容                      *)
(*   day focus                 "basics" 基础知识  "application" 综合应用   *)
(*                             "core concepts" 核心概念                    *)
(* A JavaScript value that may be undefined is a record                    *)
(* [present |-> BOOLEAN, n |-> Int].                                       *)
(***************************************************************************)
EXTENDS Integers, Sequences, FiniteSets, TLC

VARIABLES
    endpoint,       \* the route of the request being served
    DEEPSEEK_KEY,   \* TRUE iff process.env.DEEPSEEK_KEY is set (truthy)
    req,            \* req.body of the two JSON endpoints
    uploads,        \* req.files of /api/analyze-files (multer)
    pc,             \* where the handler is
    idx,            \* index of the file the current loop is at
    fileContents,   \* analyze-files: the array built by the read loop
    fileSummaries,  \* analyzeFilesWithDeepSeek: the array built so far
    log,            \* the side effects and exceptions so far, in order
    response,       \* what res.status().json() sent
    nresp,          \* how many responses were sent
    fbArgs,         \* arguments handed to the fallback generators
    fbPlan,         \* result of generateFallbackStudyPlan(fbArgs)
    fbPaper,        \* result of generateFallbackTestPaper(fbArgs)
    text,           \* the content the model answered with
    interp          \* what the JSON extraction made of text

vars == <<endpoint, DEEPSEEK_KEY, req, uploads, pc, idx, fileContents,
          fileSummaries, log, response, nresp, fbArgs, fbPlan, fbPaper,
          text, interp>>

-----------------------------------------------------------------------------
(* Bounds of the model *)

MaxFiles == 2
MaxFbFiles == 2
MaxDays == 3
MaxUploads == 2
MaxTextLen == 5

RECURSIVE SeqsUpTo(_, _)
SeqsUpTo(S, n) ==
    IF n = 0 THEN {<<>>}
    ELSE LET shorter == SeqsUpTo(S, n - 1)
         IN  shorter \cup {Append(s, e) : s \in {t \in shorter : Len(t) = n - 1}, e \in S}

Undefined == [present |-> FALSE, n |-> 0]

Num(k) == [present |-> TRUE, n |-> k]

-----------------------------------------------------------------------------
(* File names and String.prototype.toLowerCase / includes *)

UpperCase == <<"A","B","C","D","E","F","G","H","I","J","K","L","M",
               "N","O","P","Q","R","S","T","U","V","W","X","Y","Z">>

LowerCase == <<"a","b","c","d","e","f","g","h","i","j","k","l","m",
               "n","o","p","q","r","s","t","u","v","w","x","y","z">>

toLowerCaseChar(c) ==
    IF \E k \in 1..Len(UpperCase) : UpperCase[k] = c
    THEN LowerCase[CHOOSE k \in 1..Len(UpperCase) : UpperCase[k] = c]
    ELSE c

toLowerCase(s) == [k \in 1..Len(s) |-> toLowerCaseChar(s[k])]

includes(s, sub) ==
    \E k \in 0..(Len(s) - Len(sub)) : SubSeq(s, k + 1, k + Len(sub)) = sub

\* the four substrings tested at lines 384-387 and 477-480
KwMath == <<"m","a","t","h">>

KwShuxue == <<"shu","xue">>

KwDaishu == <<"dai","shu">>

KwJihe == <<"ji","he">>

\* faulty variant: the name is not lower-cased before the test
NameIsMathMissingLower(name) ==
    \/ includes(name, KwMath)
    \/ includes(name, KwShuxue)
    \/ includes(name, KwDaishu)
    \/ includes(name, KwJihe)

\* the callback given to files.some, for a file that has a name
NameIsMath(name) ==
    \/ includes(toLowerCase(name), KwMath)
    \/ includes(toLowerCase(name), KwShuxue)
    \/ includes(toLowerCase(name), KwDaishu)
    \/ includes(toLowerCase(name), KwJihe)

\* An element of `files`: an object that has a string `name` or has none.
Named(nm) == [hasName |-> TRUE, name |-> nm]

Nameless == [hasName |-> FALSE, name |-> <<>>]

\* The value of `files` in a JSON body: absent, an array, or another truthy
\* value without array methods (a number, an object).
FilesAbsent == [kind |-> "absent", items |-> <<>>]

FilesArray(items) == [kind |-> "array", items |-> items]

FilesOther == [kind |-> "other", items |-> <<>>]

\* files.some(callback): left to right, stops at the first true; a file
\* without a name makes file.name.toLowerCase() raise a TypeError.
RECURSIVE some(_, _)
some(items, k) ==
    IF k > Len(items) THEN "false"
    ELSE IF ~items[k].hasName THEN "throw"
    ELSE IF NameIsMath(items[k].name) THEN "true"
    ELSE some(items, k + 1)

isMathContent(files) ==
    IF files.kind # "array" THEN "throw" ELSE some(files.items, 1)

-----------------------------------------------------------------------------
(* generateFallbackStudyPlan *)

Schedule == <<"9:00-10:30", "10:45-12:00", "14:00-15:30", "15:45-17:00", "19:00-20:30">>

\* i === reviewDays, reviewDays possibly undefined
StrictEq(i, reviewDays) == reviewDays.present /\ i = reviewDays.n

\* i <= reviewDays; a comparison with undefined is false
LoopGuard(i, reviewDays) == reviewDays.present /\ i <= reviewDays.n

\* faulty variant: the last day is tested before the first
DifficultyLastFirst(i, reviewDays) ==
    IF StrictEq(i, reviewDays) THEN "hard" ELSE IF i = 1 THEN "easy" ELSE "medium"

Difficulty(i, reviewDays) ==
    IF i = 1 THEN "easy" ELSE IF StrictEq(i, reviewDays) THEN "hard" ELSE "medium"

DailyPlan(i, subject, reviewDays) ==
    [ day        |-> i,
      subject    |-> subject,
      title      |-> IF i = 1 THEN "basics"
                     ELSE IF StrictEq(i, reviewDays) THEN "review" ELSE "key content",
      focus      |-> IF i = 1 THEN "basics"
                     ELSE IF StrictEq(i, reviewDays) THEN "application" ELSE "core concepts",
      schedule   |-> Schedule,
      difficulty |-> Difficulty(i, reviewDays) ]

RECURSIVE PlanLoop(_, _, _, _)
PlanLoop(i, subject, reviewDays, dailyPlans) ==
    IF LoopGuard(i, reviewDays)
    THEN PlanLoop(i + 1, subject, reviewDays,
                  Append(dailyPlans, DailyPlan(i, subject, reviewDays)))
    ELSE dailyPlans

NoPlan == [plan_title |-> "", total_days |-> Undefined, daily_plans |-> <<>>]

\* [threw |-> TRUE] stands for the TypeError the function raises
generateFallbackStudyPlan(files, targetScore, reviewDays) ==
    LET m == isMathContent(files)
        subject == IF m = "true" THEN "math" ELSE "computer basics"
    IN  IF m = "throw"
        THEN [threw |-> TRUE, value |-> NoPlan]
        ELSE [threw |-> FALSE,
              value |-> [ plan_title  |-> subject,
                          total_days  |-> reviewDays,
                          daily_plans |-> PlanLoop(1, subject, reviewDays, <<>>) ]]

-----------------------------------------------------------------------------
(* generateFallbackTestPaper *)

Question(id, type, difficulty) == [id |-> id, type |-> type, difficulty |-> difficulty]

\* difficulty_distribution in hundredths: 0.67, 0.33, 0
Distribution == [easy |-> 67, medium |-> 33, hard |-> 0]

MathPaper ==
    [ title     |-> "math mock test paper (fallback)",
      questions |-> << Question(1, "single_choice", "easy"),
                       Question(2, "multiple_choice", "medium"),
                       Question(3, "judgment", "easy") >>,
      analysis  |-> [total_questions |-> 3, difficulty_distribution |-> Distribution] ]

GeneralPaper ==
    [ title     |-> "mock test paper (fallback)",
      questions |-> << Question(1, "single_choice", "easy"),
                       Question(2, "multiple_choice", "easy"),
                       Question(3, "essay", "medium") >>,
      analysis  |-> [total_questions |-> 3, difficulty_distribution |-> Distribution] ]

NoPaper ==
    [ title     |-> "",
      questions |-> <<>>,
      analysis  |-> [total_questions |-> 0,
                     difficulty_distribution |-> [easy |-> 0, medium |-> 0, hard |-> 0]] ]

RECURSIVE Take(_, _)
Take(s, n) == IF n <= 0 \/ s = <<>> THEN <<>> ELSE <<Head(s)>> \o Take(Tail(s), n - 1)

\* faulty variant: the paper is cut to the requested questionCount
generateFallbackTestPaperByCount(files, targetScore, questionCount, questionType) ==
    LET m == isMathContent(files)
        p == IF m = "true" THEN MathPaper ELSE GeneralPaper
    IN  IF m = "throw"
        THEN [threw |-> TRUE, value |-> NoPaper]
        ELSE [threw |-> FALSE,
              value |-> [p EXCEPT !.questions =
                            Take(p.questions, IF questionCount.present
                                              THEN questionCount.n ELSE Len(p.questions))]]

generateFallbackTestPaper(files, targetScore, questionCount, questionType) ==
    LET m == isMathContent(files)
    IN  IF m = "throw"
        THEN [threw |-> TRUE, value |-> NoPaper]
        ELSE [threw |-> FALSE, value |-> IF m = "true" THEN MathPaper ELSE GeneralPaper]

-----------------------------------------------------------------------------
(* The JSON extraction of lines 307-317 and 369-378.                       *)
(* A model answer is a sequence of tokens, each a piece of text:           *)
(*   "OPEN"  the 8 characters ```json followed by a newline                *)
(*   "CLOSE" a newline followed by ```                                     *)
(*   "{" "}" a brace                                                       *)
(*   "a:1"   the member "a":1          "k:"  the key "k": awaiting a value *)
(*   "hi"    prose without braces, backticks or newlines                   *)

Tokens == {"OPEN", "CLOSE", "{", "}", "a:1", "k:", "hi"}

Texts == SeqsUpTo(Tokens, MaxTextLen)

NoTree == [t |-> "none", key |-> "", kids |-> <<>>]

NumberTree == [t |-> "number", key |-> "", kids |-> <<>>]

ObjectTree(key, kids) == [t |-> "object", key |-> key, kids |-> kids]

ParseFail == [ok |-> FALSE, next |-> 0, tree |-> NoTree]

\* JSON.parse by recursive descent: value ::= {} | {"a":1} | {"k": value}
RECURSIVE ParseValue(_, _)
ParseValue(s, i) ==
    IF i + 1 > Len(s) \/ s[i] # "{" THEN ParseFail
    ELSE IF s[i + 1] = "}"
         THEN [ok |-> TRUE, next |-> i + 2, tree |-> ObjectTree("", <<>>)]
    ELSE IF s[i + 1] = "a:1"
         THEN IF i + 2 <= Len(s) /\ s[i + 2] = "}"
              THEN [ok |-> TRUE, next |-> i + 3, tree |-> ObjectTree("a", <<NumberTree>>)]
              ELSE ParseFail
    ELSE IF s[i + 1] = "k:"
         THEN LET v == ParseValue(s, i + 2)
              IN  IF v.ok /\ v.next <= Len(s) /\ s[v.next] = "}"
                  THEN [ok |-> TRUE, next |-> v.next + 1, tree |-> ObjectTree("k", <<v.tree>>)]
                  ELSE ParseFail
    ELSE ParseFail

\* JSON.parse(s): the value, or [threw |-> TRUE] for the SyntaxError
JSONparse(s) ==
    LET v == ParseValue(s, 1)
    IN  IF v.ok /\ v.next = Len(s) + 1
        THEN [threw |-> FALSE, value |-> v.tree]
        ELSE [threw |-> TRUE, value |-> NoTree]

\* index of the first tok at or after k, 0 when there is none
RECURSIVE IndexFrom(_, _, _)
IndexFrom(s, tok, k) ==
    IF k > Len(s) THEN 0 ELSE IF s[k] = tok THEN k ELSE IndexFrom(s, tok, k + 1)

\* index of the last tok at or before k, 0 when there is none
RECURSIVE LastIndexFrom(_, _, _)
LastIndexFrom(s, tok, k) ==
    IF k < 1 THEN 0 ELSE IF s[k] = tok THEN k ELSE LastIndexFrom(s, tok, k - 1)

NoMatch == [found |-> FALSE, g0 |-> <<>>, g1 |-> <<>>]

\* response.match(/```json\n([\s\S]*?)\n```/): leftmost opener, then the
\* nearest closer (the group is lazy)
FenceMatch(s) ==
    LET o == IndexFrom(s, "OPEN", 1)
        c == IF o > 0 THEN IndexFrom(s, "CLOSE", o + 1) ELSE 0
    IN  IF c > 0
        THEN [found |-> TRUE, g0 |-> SubSeq(s, o, c), g1 |-> SubSeq(s, o + 1, c - 1)]
        ELSE NoMatch

\* response.match(/\{[\s\S]*\}/): leftmost "{", then the farthest "}";
\* there is no group, so jsonMatch[1] is undefined (here the empty g1)
BraceMatch(s) ==
    LET o == IndexFrom(s, "{", 1)
        c == LastIndexFrom(s, "}", Len(s))
    IN  IF o > 0 /\ c > o
        THEN [found |-> TRUE, g0 |-> SubSeq(s, o, c), g1 |-> <<>>]
        ELSE NoMatch

Parsed(tree) == [kind |-> "parsed", value |-> tree, raw_response |-> <<>>]

RawResponse(s) == [kind |-> "raw", value |-> NoTree, raw_response |-> s]

NoInterp == [kind |-> "none", value |-> NoTree, raw_response |-> <<>>]

\* faulty variant: the brace pattern is tried before the fenced one
extractStructuredBraceFirst(s) ==
    LET m2 == BraceMatch(s)
        jsonMatch == IF m2.found THEN m2 ELSE FenceMatch(s)
    IN  IF jsonMatch.found
        THEN LET p == JSONparse(IF jsonMatch.g1 # <<>> THEN jsonMatch.g1 ELSE jsonMatch.g0)
             IN  IF p.threw THEN RawResponse(s) ELSE Parsed(p.value)
        ELSE RawResponse(s)

\* the try block of lines 307-317 (and 369-378): a match, then
\* JSON.parse(jsonMatch[1] || jsonMatch[0]); a SyntaxError is caught
extractStructured(s) ==
    LET m1 == FenceMatch(s)
        jsonMatch == IF m1.found THEN m1 ELSE BraceMatch(s)
    IN  IF jsonMatch.found
        THEN LET p == JSONparse(IF jsonMatch.g1 # <<>> THEN jsonMatch.g1 ELSE jsonMatch.g0)
             IN  IF p.threw THEN RawResponse(s) ELSE Parsed(p.value)
        ELSE RawResponse(s)

-----------------------------------------------------------------------------
(* Requests, responses and the log *)

NoBody ==
    [ files |-> FilesAbsent, targetScore |-> Undefined, reviewDays |-> Undefined,
      questionCount |-> Undefined, questionType |-> "" ]

NoUploads == [present |-> FALSE, items |-> <<>>]

NoStudyPlan == [kind |-> "none", plan |-> NoPlan, model |-> NoInterp]

NoTestPaper == [kind |-> "none", paper |-> NoPaper, model |-> NoInterp]

\* status 0: nothing sent yet; error = "" and warning = "": field not present
NoResponse ==
    [ status |-> 0, success |-> FALSE, error |-> "", warning |-> "",
      studyPlan |-> NoStudyPlan, testPaper |-> NoTestPaper,
      files |-> <<>>, analysis |-> <<>> ]

\* content: the text a successful call returned
Event(ev, i, ok, msg, content) ==
    [ev |-> ev, i |-> i, ok |-> ok, msg |-> msg, content |-> content]

\* values a request may carry
HandlerNames == { <<"m","a","t","h">>, <<"n","o","t","e","s">> }

HandlerEntries == {Named(nm) : nm \in HandlerNames} \cup {Nameless}

FilesValues ==
    {FilesAbsent, FilesOther}
        \cup {FilesArray(items) : items \in SeqsUpTo(HandlerEntries, MaxFiles)}

TargetScores == {Undefined, Num(90)}

ReviewDaysValues == {Undefined} \cup {Num(k) : k \in -1..MaxDays}

QuestionCounts == {Num(1), Num(5)}

QuestionTypes == {"all", "essay"}

UploadFiles ==
    {[originalname |-> nm, mimetype |-> "text/plain"] : nm \in {"a.txt", "b.pdf"}}

UploadValues ==
    {NoUploads}
        \cup {[present |-> TRUE, items |-> items] : items \in SeqsUpTo(UploadFiles, MaxUploads)}

\* answers of the model that the handlers are run on
HandlerTexts ==
    { <<"hi">>,
      <<"{", "a:1", "}">>,
      <<"hi", "OPEN", "{", "}", "CLOSE">>,
      <<"OPEN", "hi", "CLOSE", "{", "}">> }

AnalysisTexts == { <<"hi">>, <<"hi", "hi">> }

UpstreamErrors == {"Network Error", "Request failed with status code 500", ""}

\* the last-resort arguments of lines 150 and 190
DefaultTargetScore == 85

DefaultReviewDays == 7

DefaultQuestionCount == 3

-----------------------------------------------------------------------------
(* callDeepSeekAPI: the outcomes one call can have *)

callDeepSeekAPI(contents) ==
    IF ~DEEPSEEK_KEY
    THEN {[ok |-> FALSE, content |-> <<>>, message |-> "DeepSeek API key not configured"]}
    ELSE {[ok |-> TRUE, content |-> c, message |-> ""] : c \in contents}
            \cup {[ok |-> FALSE, content |-> <<>>, message |-> m] : m \in UpstreamErrors}

-----------------------------------------------------------------------------
(* POST /api/analyze-files *)

Respond400(message) == [NoResponse EXCEPT !.status = 400, !.error = message]

\* lines 64-78: what one file adds to fileContents
ReadEntry(file, readOk) ==
    IF readOk
    THEN << [name |-> file.originalname, type |-> file.mimetype, content |-> <<"content">>] >>
    ELSE << [name |-> file.originalname, type |-> file.mimetype,
             content |-> <<"cannot read file content: ", "ENOENT">>] >>

\* faulty variant: unlinkSync inside the try, skipped when the read fails
CleanupOnlyAfterRead(i, readOk, unlinkOk) ==
    IF readOk THEN << Event("unlink", i, unlinkOk, "", <<>>) >> ELSE <<>>

\* lines 79-86: the finally block; unlinkSync may throw, which is caught
Cleanup(i, readOk, unlinkOk) == << Event("unlink", i, unlinkOk, "", <<>>) >>

FileInfo(contents) ==
    [k \in 1..Len(contents) |-> [name |-> contents[k].name, type |-> contents[k].type]]

FailureText(message) ==
    <<"file analysis failed: ", IF message # "" THEN message ELSE "API call error">>

\* faulty variant: entries only for the files not analysed yet
AnalysisFailedRemaining(contents, message) ==
    [k \in 1..(Len(contents) - Len(fileSummaries)) |->
        [name |-> contents[k + Len(fileSummaries)].name, analysis |-> FailureText(message)]]

\* faulty variant: the analyses already obtained are kept
AnalysisFailedKeepDone(contents, message) ==
    [k \in 1..Len(contents) |->
        IF k <= Len(fileSummaries) THEN fileSummaries[k]
        ELSE [name |-> contents[k].name, analysis |-> FailureText(message)]]

\* lines 104-107
AnalysisFailed(contents, message) ==
    [k \in 1..Len(contents) |->
        [name |-> contents[k].name, analysis |-> FailureText(message)]]

AnalyzeReceive ==
    /\ pc = "start" /\ endpoint = "analyze"
    /\ IF ~uploads.present \/ Len(uploads.items) = 0
       THEN /\ response' = Respond400("no file uploaded")
            /\ nresp' = nresp + 1
            /\ pc' = "done"
            /\ idx' = idx
       ELSE /\ pc' = "reading"
            /\ idx' = 1
            /\ UNCHANGED <<response, nresp>>
    /\ UNCHANGED <<endpoint, DEEPSEEK_KEY, req, uploads, fileContents, fileSummaries,
                   log, fbArgs, fbPlan, fbPaper, text, interp>>

\* one iteration of the loop of lines 63-87
ReadFile ==
    /\ pc = "reading" /\ endpoint = "analyze"
    /\ \E readOk \in BOOLEAN, unlinkOk \in BOOLEAN :
          /\ fileContents' = fileContents \o ReadEntry(uploads.items[idx], readOk)
          /\ log' = log \o << Event("read", idx, readOk, "", <<>>) >>
                        \o Cleanup(idx, readOk, unlinkOk)
    /\ IF idx < Len(uploads.items)
       THEN idx' = idx + 1 /\ pc' = pc
       ELSE idx' = 1 /\ pc' = "analyzing"
    /\ UNCHANGED <<endpoint, DEEPSEEK_KEY, req, uploads, fileSummaries, response, nresp,
                   fbArgs, fbPlan, fbPaper, text, interp>>

\* one iteration of the loop of lines 235-257 whose call answers
AnalyzeCallReturns ==
    /\ pc = "analyzing" /\ endpoint = "analyze"
    /\ \E o \in callDeepSeekAPI(AnalysisTexts) :
          /\ o.ok
          /\ log' = Append(log, Event("call", idx, TRUE, "", o.content))
          /\ fileSummaries' = Append(fileSummaries,
                                     [name |-> fileContents[idx].name, analysis |-> o.content])
    /\ IF idx < Len(fileContents)
       THEN /\ idx' = idx + 1
            /\ UNCHANGED <<pc, response, nresp>>
       ELSE /\ response' = [NoResponse EXCEPT !.status = 200, !.success = TRUE,
                                              !.files = FileInfo(fileContents),
                                              !.analysis = fileSummaries']
            /\ nresp' = nresp + 1
            /\ pc' = "done"
            /\ idx' = idx
    /\ UNCHANGED <<endpoint, DEEPSEEK_KEY, req, uploads, fileContents,
                   fbArgs, fbPlan, fbPaper, text, interp>>

\* a call throws: analyzeFilesWithDeepSeek rejects, lines 98-110 answer
AnalyzeCallFails ==
    /\ pc = "analyzing" /\ endpoint = "analyze"
    /\ \E o \in callDeepSeekAPI(AnalysisTexts) :
          /\ ~o.ok
          /\ log' = Append(log, Event("call", idx, FALSE, o.message, <<>>))
          /\ response' = [NoResponse EXCEPT !.status = 200, !.success = TRUE,
                                            !.files = FileInfo(fileContents),
                                            !.analysis = AnalysisFailed(fileContents, o.message),
                                            !.warning = "file analysis failed, using fallback"]
    /\ nresp' = nresp + 1
    /\ pc' = "done"
    /\ UNCHANGED <<endpoint, DEEPSEEK_KEY, req, uploads, idx, fileContents, fileSummaries,
                   fbArgs, fbPlan, fbPaper, text, interp>>

-----------------------------------------------------------------------------
(* POST /api/generate-study-plan and POST /api/generate-test-paper *)

\* !files || files.length === 0
FilesMissing(files) ==
    files.kind = "absent" \/ (files.kind = "array" /\ Len(files.items) = 0)

EmptyFiles == FilesArray(<<>>)

\* faulty variant: no last resort, a raising fallback answers 500
StudyPlanCatchNoLastResort(files, targetScore, reviewDays) ==
    LET fb == generateFallbackStudyPlan(files, targetScore, reviewDays)
    IN  IF ~fb.threw
        THEN [ response |-> [NoResponse EXCEPT
                    !.status = 200, !.success = TRUE,
                    !.studyPlan = [kind |-> "fallback", plan |-> fb.value, model |-> NoInterp],
                    !.warning = "API call failed, using the fallback study plan"],
               events |-> << Event("fallback", 0, TRUE, "", <<>>) >> ]
        ELSE [ response |-> [NoResponse EXCEPT !.status = 500,
                                               !.error = "study plan generation failed"],
               events |-> << Event("fallback", 0, FALSE, "TypeError", <<>>) >> ]

\* lines 136-157: the inner catch calls the fallback generator with the
\* request's arguments; if that raises, the outer catch calls it with
\* ([], 85, 7)
StudyPlanCatch(files, targetScore, reviewDays) ==
    LET fb == generateFallbackStudyPlan(files, targetScore, reviewDays)
        last == generateFallbackStudyPlan(EmptyFiles, Num(DefaultTargetScore),
                                          Num(DefaultReviewDays))
    IN  IF ~fb.threw
        THEN [ response |-> [NoResponse EXCEPT
                    !.status = 200, !.success = TRUE,
                    !.studyPlan = [kind |-> "fallback", plan |-> fb.value, model |-> NoInterp],
                    !.warning = "API call failed, using the fallback study plan"],
               events |-> << Event("fallback", 0, TRUE, "", <<>>) >> ]
        ELSE [ response |-> [NoResponse EXCEPT
                    !.status = 200, !.success = TRUE,
                    !.studyPlan = [kind |-> "fallback", plan |-> last.value, model |-> NoInterp],
                    !.warning = "generation failed, using the fallback"],
               events |-> << Event("fallback", 0, FALSE, "TypeError", <<>>),
                             Event("fallback", 0, TRUE, "last resort", <<>>) >> ]

\* lines 176-197, likewise with ([], 85, 3, 'all')
TestPaperCatch(files, targetScore, questionCount, questionType) ==
    LET fb == generateFallbackTestPaper(files, targetScore, questionCount, questionType)
        last == generateFallbackTestPaper(EmptyFiles, Num(DefaultTargetScore),
                                          Num(DefaultQuestionCount), "all")
    IN  IF ~fb.threw
        THEN [ response |-> [NoResponse EXCEPT
                    !.status = 200, !.success = TRUE,
                    !.testPaper = [kind |-> "fallback", paper |-> fb.value, model |-> NoInterp],
                    !.warning = "API call failed, using the fallback test paper"],
               events |-> << Event("fallback", 0, TRUE, "", <<>>) >> ]
        ELSE [ response |-> [NoResponse EXCEPT
                    !.status = 200, !.success = TRUE,
                    !.testPaper = [kind |-> "fallback", paper |-> last.value, model |-> NoInterp],
                    !.warning = "generation failed, using the fallback"],
               events |-> << Event("fallback", 0, FALSE, "TypeError", <<>>),
                             Event("fallback", 0, TRUE, "last resort", <<>>) >> ]

\* the catch blocks of the endpoint being served
Catch ==
    IF endpoint = "plan"
    THEN StudyPlanCatch(req.files, req.targetScore, req.reviewDays)
    ELSE TestPaperCatch(req.files, req.targetScore, req.questionCount, req.questionType)

\* lines 122-130 / 162-170: the check of `files`, then files.map(...) builds
\* the prompt (a TypeError when files is no array) and the call is issued
GenerateReceive ==
    /\ pc = "start" /\ endpoint \in {"plan", "paper"}
    /\ IF FilesMissing(req.files)
       THEN /\ response' = Respond400("no file content")
            /\ nresp' = nresp + 1
            /\ pc' = "done"
            /\ log' = log
       ELSE IF req.files.kind # "array"
       THEN /\ response' = Catch.response
            /\ nresp' = nresp + 1
            /\ pc' = "done"
            /\ log' = log \o << Event("exception", 0, FALSE, "files.map is not a function", <<>>) >>
                          \o Catch.events
       ELSE /\ pc' = "calling"
            /\ UNCHANGED <<response, nresp, log>>
    /\ UNCHANGED <<endpoint, DEEPSEEK_KEY, req, uploads, idx, fileContents, fileSummaries,
                   fbArgs, fbPlan, fbPaper, text, interp>>

\* the call answers: lines 307-317 / 369-378 interpret it, 132-135 / 172-175 respond
GenerateCallReturns ==
    /\ pc = "calling" /\ endpoint \in {"plan", "paper"}
    /\ \E o \in callDeepSeekAPI(HandlerTexts) :
          /\ o.ok
          /\ log' = Append(log, Event("call", 1, TRUE, "", o.content))
          /\ response' =
                IF endpoint = "plan"
                THEN [NoResponse EXCEPT !.status = 200, !.success = TRUE,
                        !.studyPlan = [kind |-> "model", plan |-> NoPlan,
                                       model |-> extractStructured(o.content)]]
                ELSE [NoResponse EXCEPT !.status = 200, !.success = TRUE,
                        !.testPaper = [kind |-> "model", paper |-> NoPaper,
                                       model |-> extractStructured(o.content)]]
    /\ nresp' = nresp + 1
    /\ pc' = "done"
    /\ UNCHANGED <<endpoint, DEEPSEEK_KEY, req, uploads, idx, fileContents, fileSummaries,
                   fbArgs, fbPlan, fbPaper, text, interp>>

\* the call throws: the catch blocks answer
GenerateCallFails ==
    /\ pc = "calling" /\ endpoint \in {"plan", "paper"}
    /\ \E o \in callDeepSeekAPI(HandlerTexts) :
          /\ ~o.ok
          /\ log' = Append(log, Event("call", 1, FALSE, o.message, <<>>)) \o Catch.events
    /\ response' = Catch.response
    /\ nresp' = nresp + 1
    /\ pc' = "done"
    /\ UNCHANGED <<endpoint, DEEPSEEK_KEY, req, uploads, idx, fileContents, fileSummaries,
                   fbArgs, fbPlan, fbPaper, text, interp>>

-----------------------------------------------------------------------------
(* The server: one request, on any of the three routes *)

NoFallbackArgs == NoBody

NoCall == [called |-> FALSE, threw |-> FALSE]

Init ==
    /\ endpoint \in {"analyze", "plan", "paper"}
    /\ DEEPSEEK_KEY \in BOOLEAN
    /\ uploads \in (IF endpoint = "analyze" THEN UploadValues ELSE {NoUploads})
    /\ req \in (IF endpoint = "plan"
                THEN [ files : FilesValues, targetScore : TargetScores,
                       reviewDays : ReviewDaysValues,
                       questionCount : {Undefined}, questionType : {""} ]
                ELSE IF endpoint = "paper"
                THEN [ files : FilesValues, targetScore : TargetScores,
                       reviewDays : {Undefined},
                       questionCount : QuestionCounts, questionType : QuestionTypes ]
                ELSE {NoBody})
    /\ pc = "start"
    /\ idx = 0
    /\ fileContents = <<>>
    /\ fileSummaries = <<>>
    /\ log = <<>>
    /\ response = NoResponse
    /\ nresp = 0
    /\ fbArgs = NoFallbackArgs
    /\ fbPlan = [call |-> NoCall, value |-> NoPlan]
    /\ fbPaper = [call |-> NoCall, value |-> NoPaper]
    /\ text = <<>>
    /\ interp = NoInterp

Next ==
    \/ AnalyzeReceive
    \/ ReadFile
    \/ AnalyzeCallReturns
    \/ AnalyzeCallFails
    \/ GenerateReceive
    \/ GenerateCallReturns
    \/ GenerateCallFails

Spec == Init /\ [][Next]_vars

-----------------------------------------------------------------------------
(* The fallback generators on their own, over a wider set of file names *)

FbNames ==
    { <<"m","a","t","h","s">>, <<"M","a","T","H">>, <<"gao","shu","xue">>,
      <<"dai","shu">>, <<"ji","he">>, <<"m","a","t">>, <<"shu","dai">> }

FbEntries == {Named(nm) : nm \in FbNames} \cup {Nameless}

FbFilesValues == {FilesArray(items) : items \in SeqsUpTo(FbEntries, MaxFbFiles)}

InitFallback ==
    /\ endpoint = "fallback"
    /\ DEEPSEEK_KEY = FALSE
    /\ uploads = NoUploads
    /\ req = NoBody
    /\ pc = "start"
    /\ idx = 0
    /\ fileContents = <<>>
    /\ fileSummaries = <<>>
    /\ log = <<>>
    /\ response = NoResponse
    /\ nresp = 0
    /\ fbArgs \in [ files : FbFilesValues, targetScore : TargetScores,
                    reviewDays : ReviewDaysValues,
                    questionCount : QuestionCounts, questionType : QuestionTypes ]
    /\ fbPlan = [call |-> NoCall, value |-> NoPlan]
    /\ fbPaper = [call |-> NoCall, value |-> NoPaper]
    /\ text = <<>>
    /\ interp = NoInterp

FallbackStudyPlan ==
    /\ endpoint = "fallback" /\ ~fbPlan.call.called
    /\ LET r == generateFallbackStudyPlan(fbArgs.files, fbArgs.targetScore, fbArgs.reviewDays)
       IN  fbPlan' = [call |-> [called |-> TRUE, threw |-> r.threw], value |-> r.value]
    /\ UNCHANGED <<endpoint, DEEPSEEK_KEY, req, uploads, pc, idx, fileContents,
                   fileSummaries, log, response, nresp, fbArgs, fbPaper, text, interp>>

FallbackTestPaper ==
    /\ endpoint = "fallback" /\ ~fbPaper.call.called
    /\ LET r == generateFallbackTestPaper(fbArgs.files, fbArgs.targetScore,
                                          fbArgs.questionCount, fbArgs.questionType)
       IN  fbPaper' = [call |-> [called |-> TRUE, threw |-> r.threw], value |-> r.value]
    /\ UNCHANGED <<endpoint, DEEPSEEK_KEY, req, uploads, pc, idx, fileContents,
                   fileSummaries, log, response, nresp, fbArgs, fbPlan, text, interp>>

NextFallback == FallbackStudyPlan \/ FallbackTestPaper

SpecFallback == InitFallback /\ [][NextFallback]_vars

-----------------------------------------------------------------------------
(* The JSON extraction on its own, over every answer of up to MaxTextLen tokens *)

InitInterp ==
    /\ endpoint = "interp"
    /\ DEEPSEEK_KEY = TRUE
    /\ uploads = NoUploads
    /\ req = NoBody
    /\ pc = "start"
    /\ idx = 0
    /\ fileContents = <<>>
    /\ fileSummaries = <<>>
    /\ log = <<>>
    /\ response = NoResponse
    /\ nresp = 0
    /\ fbArgs = NoFallbackArgs
    /\ fbPlan = [call |-> NoCall, value |-> NoPlan]
    /\ fbPaper = [call |-> NoCall, value |-> NoPaper]
    /\ text \in Texts
    /\ interp = NoInterp

Interpret ==
    /\ endpoint = "interp" /\ pc = "start"
    /\ interp' = extractStructured(text)
    /\ pc' = "done"
    /\ UNCHANGED <<endpoint, DEEPSEEK_KEY, req, uploads, idx, fileContents, fileSummaries,
                   log, response, nresp, fbArgs, fbPlan, fbPaper, text>>

NextInterp == Interpret

SpecInterp == InitInterp /\ [][NextInterp]_vars

-----------------------------------------------------------------------------
(* Properties *)

Range(f) == {f[k] : k \in DOMAIN f}

Payload == IF endpoint = "plan" THEN response.studyPlan ELSE response.testPaper

\* an inference call failed or an exception was raised inside the handler
Failed ==
    \E e \in Range(log) : (e.ev \in {"call", "fallback"} /\ ~e.ok) \/ e.ev = "exception"

FromFallbackGenerator ==
    IF endpoint = "plan"
    THEN \E r \in { generateFallbackStudyPlan(req.files, req.targetScore, req.reviewDays),
                    generateFallbackStudyPlan(EmptyFiles, Num(85), Num(7)) } :
            ~r.threw /\ response.studyPlan.plan = r.value
    ELSE \E r \in { generateFallbackTestPaper(req.files, req.targetScore,
                                              req.questionCount, req.questionType),
                    generateFallbackTestPaper(EmptyFiles, Num(85), Num(3), "all") } :
            ~r.threw /\ response.testPaper.paper = r.value

\* C1: on the study-plan and test-paper routes a request gets exactly one
\* response: 400 with an error iff `files` is absent or empty, otherwise 200
\* with success:true and a studyPlan/testPaper; after a failed inference call
\* or an exception in the handler the 200 response carries the Fallback
\* Generator's content and a warning; no response is a 5xx.
C1_GenerateDegradesToFallback ==
    endpoint \in {"plan", "paper"} =>
        /\ nresp <= 1
        /\ (nresp = 1) <=> (pc = "done")
        /\ pc # "done" => ENABLED Next
        /\ pc = "done" =>
              /\ response.status \in {200, 400}
              /\ (response.status = 400)
                    <=> (req.files.kind = "absent" \/ req.files = FilesArray(<<>>))
              /\ response.status = 400 => response.error # "" /\ ~Failed
              /\ response.status = 200 =>
                    /\ response.success
                    /\ Payload.kind \in {"model", "fallback"}
                    /\ Payload.kind = "model" => Payload.model.kind \in {"parsed", "raw"}
              /\ Failed =>
                    /\ response.status = 200
                    /\ Payload.kind = "fallback"
                    /\ FromFallbackGenerator
                    /\ response.warning # ""

\* the scenario of the spec: a test paper for math notes with no credential
C1_Witness ==
    /\ endpoint = "paper" /\ pc = "done" /\ ~DEEPSEEK_KEY
    /\ req.files = FilesArray(<< Named(<<"m","a","t","h">>) >>)
    /\ response.status = 200 /\ response.success
    /\ response.testPaper.paper = MathPaper
    /\ Len(response.testPaper.paper.questions) = 3
    /\ response.warning # ""

\* C2: analyze-files answers 400 with an error when no file is uploaded; for
\* a non-empty upload it answers 200 with success:true and `analysis` has one
\* entry per uploaded file, in upload order, with the same names, whatever
\* the reads and the inference calls did.
C2_AnalysisOnePerFile ==
    endpoint = "analyze" =>
        /\ nresp <= 1
        /\ (nresp = 1) <=> (pc = "done")
        /\ pc # "done" => ENABLED Next
        /\ pc = "done" =>
              IF ~uploads.present \/ uploads.items = <<>>
              THEN response.status = 400 /\ response.error # ""
              ELSE /\ response.status = 200
                   /\ response.success
                   /\ Len(response.analysis) = Len(uploads.items)
                   /\ \A k \in 1..Len(uploads.items) :
                         response.analysis[k].name = uploads.items[k].originalname

C2_Witness ==
    /\ endpoint = "analyze" /\ pc = "done"
    /\ Len(uploads.items) = 2
    /\ uploads.items[1].originalname # uploads.items[2].originalname
    /\ \E e \in Range(log) : e.ev = "read" /\ ~e.ok
    /\ \E e \in Range(log) : e.ev = "call" /\ e.i = 2 /\ ~e.ok
    /\ Len(response.analysis) = 2

\* C3 (as claimed): for a `files` array that passed the handler's check,
\* whatever fields its entries have, the fallback generators return without
\* raising, and no inference call follows them.
C3_FallbackNeverRaises ==
    req.files.kind = "array" => \A k \in 1..Len(log) :
        log[k].ev = "fallback" =>
            /\ log[k].ok
            /\ \A j \in (k + 1)..Len(log) : log[j].ev # "call"

\* C5 (as claimed): a study plan that the endpoint returns from the Fallback
\* Generator has total_days equal to the number of daily_plans.
C5_TotalDaysIsLength ==
    (endpoint = "plan" /\ pc = "done" /\ response.studyPlan.kind = "fallback") =>
        /\ response.studyPlan.plan.total_days.present
        /\ response.studyPlan.plan.total_days.n = Len(response.studyPlan.plan.daily_plans)

Calls == SelectSeq(log, LAMBDA e : e.ev = "call")

\* C9: in analyze-files the inference calls go out in file order, at most
\* one per file; after a failed call there is no further call, and the 200
\* response has a warning and the failure string as every file's analysis;
\* with no failed call each analysis is the text its own call returned and
\* there is no warning.
C9_CallsInOrderNoRetry ==
    endpoint = "analyze" =>
        /\ Len(Calls) <= Len(uploads.items)
        /\ \A k \in 1..Len(Calls) : Calls[k].i = k
        /\ \A k \in 1..(Len(Calls) - 1) : Calls[k].ok
        /\ (Calls # <<>> /\ ~Calls[Len(Calls)].ok) => pc = "done"
        /\ (pc = "done" /\ response.status = 200) =>
              IF ~Calls[Len(Calls)].ok
              THEN /\ response.warning # ""
                   /\ \A k \in 1..Len(uploads.items) :
                         response.analysis[k].analysis =
                            << "file analysis failed: ",
                               IF Calls[Len(Calls)].msg = "" THEN "API call error"
                               ELSE Calls[Len(Calls)].msg >>
              ELSE /\ response.warning = ""
                   /\ Len(Calls) = Len(uploads.items)
                   /\ \A k \in 1..Len(uploads.items) :
                         response.analysis[k].analysis = Calls[k].content

C9_Witness ==
    /\ endpoint = "analyze" /\ pc = "done"
    /\ Len(uploads.items) = 2
    /\ Len(Calls) = 2 /\ Calls[1].ok /\ ~Calls[2].ok
    /\ response.status = 200 /\ response.warning # ""
    /\ response.analysis[1].analysis # Calls[1].content

Positions(ev, i) == {p \in 1..Len(log) : log[p].ev = ev /\ log[p].i = i}

\* the response the calls alone determine
AnalyzeResponseFromCalls ==
    IF ~Calls[Len(Calls)].ok
    THEN [NoResponse EXCEPT
            !.status = 200, !.success = TRUE,
            !.files = [k \in 1..Len(uploads.items) |->
                          [name |-> uploads.items[k].originalname,
                           type |-> uploads.items[k].mimetype]],
            !.analysis = [k \in 1..Len(uploads.items) |->
                          [name |-> uploads.items[k].originalname,
                           analysis |-> FailureText(Calls[Len(Calls)].msg)]],
            !.warning = "file analysis failed, using fallback"]
    ELSE [NoResponse EXCEPT
            !.status = 200, !.success = TRUE,
            !.files = [k \in 1..Len(uploads.items) |->
                          [name |-> uploads.items[k].originalname,
                           type |-> uploads.items[k].mimetype]],
            !.analysis = [k \in 1..Len(uploads.items) |->
                          [name |-> uploads.items[k].originalname,
                           analysis |-> Calls[k].content]]]

\* C10: in analyze-files with at least one upload, each file's temporary
\* file gets exactly one deletion attempt, right after that file's read
\* attempt (failed or not), before the next read and before the first
\* inference call, so every file has had one when the response is sent; a
\* failed deletion changes neither status nor body; a failed read gives that
\* file an error-message content and skips neither its deletion nor the
\* remaining files.
C10_CleanupAfterEveryRead ==
    (endpoint = "analyze" /\ uploads.present /\ uploads.items # <<>>) =>
        /\ \A k \in 1..Len(uploads.items) :
              /\ Cardinality(Positions("read", k)) <= 1
              /\ Cardinality(Positions("unlink", k)) = Cardinality(Positions("read", k))
              /\ \A r \in Positions("read", k) :
                    /\ Positions("unlink", k) = {r + 1}
                    /\ Len(fileContents) >= k
                    /\ ~log[r].ok =>
                          fileContents[k].content = <<"cannot read file content: ", "ENOENT">>
                    /\ \A j \in 1..(k - 1) : \E q \in Positions("unlink", j) : q < r
              /\ \A u \in Positions("unlink", k) :
                    \A c \in 1..Len(log) : log[c].ev = "call" => u < c
        /\ pc \in {"analyzing", "done"} =>
              /\ Len(fileContents) = Len(uploads.items)
              /\ \A k \in 1..Len(uploads.items) : Cardinality(Positions("unlink", k)) = 1
        /\ pc = "done" => response = AnalyzeResponseFromCalls

C10_Witness ==
    /\ endpoint = "analyze" /\ pc = "done"
    /\ Len(uploads.items) = 2
    /\ \E r \in Positions("read", 1) : ~log[r].ok
    /\ \E u \in Positions("unlink", 1) : ~log[u].ok
    /\ Positions("unlink", 2) # {}
    /\ response.status = 200

-----------------------------------------------------------------------------
(* Properties of the fallback generators (SpecFallback) *)

Days == fbPlan.value.daily_plans

\* C4: for reviewDays = n >= 1 generateFallbackStudyPlan returns n daily
\* plans numbered 1..n with total_days = n; day 1 is "easy" (also when
\* n = 1), day n is "hard" when n > 1, the days between are "medium".
C4_DailyPlansShape ==
    (fbPlan.call.called /\ ~fbPlan.call.threw
        /\ fbArgs.reviewDays.present /\ fbArgs.reviewDays.n >= 1) =>
        LET n == fbArgs.reviewDays.n
        IN  /\ Len(Days) = n
            /\ fbPlan.value.total_days = Num(n)
            /\ \A i \in 1..n : Days[i].day = i
            /\ Days[1].difficulty = "easy"
            /\ n > 1 => Days[n].difficulty = "hard"
            /\ \A i \in 2..(n - 1) : Days[i].difficulty = "medium"

C4_Witness ==
    /\ fbPlan.call.called /\ ~fbPlan.call.threw
    /\ fbArgs.reviewDays = Num(3)
    /\ Len(Days) = 3
    /\ Days[2].difficulty = "medium"

CaseEq(c, d) == c = d \/ \E k \in 1..Len(UpperCase) : UpperCase[k] = c /\ LowerCase[k] = d

\* name has kw at some offset, ignoring case
ContainsIgnoringCase(name, kw) ==
    \E off \in 0..(Len(name) - Len(kw)) :
        \A j \in 1..Len(kw) : CaseEq(name[off + j], kw[j])

SomeNameIsMath(files) ==
    \E k \in 1..Len(files.items) :
        /\ files.items[k].hasName
        /\ \E kw \in { <<"m","a","t","h">>, <<"shu","xue">>, <<"dai","shu">>, <<"ji","he">> } :
              ContainsIgnoringCase(files.items[k].name, kw)

\* C6: the math fallback (math paper; plan with subject math) is selected
\* iff some file name contains, ignoring case, "math", 数学, 代数 or 几何,
\* otherwise the general one; both generators classify a file set alike and
\* the empty set is general.  A generator that raises (C3) selects nothing.
C6_DomainClassification ==
    /\ (fbPlan.call.called /\ ~fbPlan.call.threw) =>
          /\ fbPlan.value.plan_title = "math" <=> SomeNameIsMath(fbArgs.files)
          /\ ~SomeNameIsMath(fbArgs.files) => fbPlan.value.plan_title = "computer basics"
          /\ \A i \in 1..Len(Days) : Days[i].subject = fbPlan.value.plan_title
    /\ (fbPaper.call.called /\ ~fbPaper.call.threw) =>
          /\ fbPaper.value = MathPaper <=> SomeNameIsMath(fbArgs.files)
          /\ ~SomeNameIsMath(fbArgs.files) => fbPaper.value = GeneralPaper
    /\ (fbPlan.call.called /\ fbPaper.call.called) =>
          /\ fbPlan.call.threw = fbPaper.call.threw
          /\ ~fbPlan.call.threw =>
                (fbPlan.value.plan_title = "math" <=> fbPaper.value = MathPaper)
    /\ (fbArgs.files.items = <<>> /\ fbPlan.call.called /\ fbPaper.call.called) =>
          /\ ~fbPlan.call.threw /\ fbPlan.value.plan_title = "computer basics"
          /\ ~fbPaper.call.threw /\ fbPaper.value = GeneralPaper

\* an upper-case name after a near miss selects math in both generators
C6_Witness ==
    /\ fbArgs.files = FilesArray(<< Named(<<"m","a","t">>), Named(<<"M","a","T","H">>) >>)
    /\ fbPlan.call.called /\ fbPlan.value.plan_title = "math"
    /\ fbPaper.call.called /\ fbPaper.value = MathPaper

\* C8: generateFallbackTestPaper returns 3 questions whatever targetScore,
\* questionCount and questionType are and whichever domain is selected; the
\* ids are 1, 2, 3 in order, analysis.total_questions is the number of
\* questions and the difficulty_distribution sums to 1.0 (100 hundredths).
C8_PaperHasThreeQuestions ==
    (fbPaper.call.called /\ ~fbPaper.call.threw) =>
        LET paper == fbPaper.value
            d == paper.analysis.difficulty_distribution
        IN  /\ Len(paper.questions) = 3
            /\ \A k \in 1..Len(paper.questions) : paper.questions[k].id = k
            /\ paper.analysis.total_questions = Len(paper.questions)
            /\ d.easy + d.medium + d.hard = 100

C8_Witness ==
    /\ fbPaper.call.called /\ ~fbPaper.call.threw
    /\ fbArgs.questionCount = Num(1) /\ fbArgs.questionType = "essay"
    /\ fbPaper.value = MathPaper
    /\ Len(fbPaper.value.questions) = 3

-----------------------------------------------------------------------------
(* Property of the JSON extraction (SpecInterp) *)

\* the fenced block the first regular expression selects: the leftmost
\* opener that a closer follows, up to the nearest closer
HasFence(s) == \E o, c \in 1..Len(s) : o < c /\ s[o] = "OPEN" /\ s[c] = "CLOSE"

FenceInterior(s) ==
    LET o == CHOOSE a \in 1..Len(s) :
                /\ s[a] = "OPEN"
                /\ \A b \in 1..(a - 1) : s[b] # "OPEN"
        c == CHOOSE a \in (o + 1)..Len(s) :
                /\ s[a] = "CLOSE"
                /\ \A b \in (o + 1)..(a - 1) : s[b] # "CLOSE"
    IN  SubSeq(s, o + 1, c - 1)

HasBraces(s) == \E o, c \in 1..Len(s) : o < c /\ s[o] = "{" /\ s[c] = "}"

BraceSpan(s) ==
    LET o == CHOOSE a \in 1..Len(s) : s[a] = "{" /\ \A b \in 1..(a - 1) : s[b] # "{"
        c == CHOOSE a \in 1..Len(s) : s[a] = "}" /\ \A b \in (a + 1)..Len(s) : s[b] # "}"
    IN  SubSeq(s, o, c)

\* C7: the extraction never throws: with a fenced JSON block the result is
\* the parse of the block's interior when that is valid JSON; with no fenced
\* block but a span from the first "{" to the last "}" that is valid JSON,
\* the result is that object; in every other case the result is the envelope
\* holding the original text.
C7_ExtractionBestEffort ==
    pc = "done" /\ endpoint = "interp" =>
        /\ interp.kind \in {"parsed", "raw"}
        /\ IF HasFence(text)
           THEN IF ~JSONparse(FenceInterior(text)).threw
                THEN interp = Parsed(JSONparse(FenceInterior(text)).value)
                ELSE interp = RawResponse(text)
           ELSE IF HasBraces(text) /\ ~JSONparse(BraceSpan(text)).threw
                THEN interp = Parsed(JSONparse(BraceSpan(text)).value)
                ELSE interp = RawResponse(text)

\* a valid fenced block inside a text whose brace span is not valid JSON
C7_Witness ==
    /\ endpoint = "interp" /\ pc = "done"
    /\ text = <<"OPEN", "{", "}", "CLOSE", "}">>
    /\ interp = Parsed(ObjectTree("", <<>>))

====
